---- MODULE Spec2Model ----
(***************************************************************************)
(* Model of backup_script.py: the BackupManager (privacy gate, fetch,      *)
(* change detection, snapshot store, retention pruning) and main().        *)
(*                                                                         *)
(* One behaviour is a sequence of process invocations (runs) of main()     *)
(* against one backups/ directory under one process environment.           *)
(***************************************************************************)
EXTENDS Integers, Sequences, FiniteSets, TLC

(* ------------------------------ bounds --------------------------------- *)
\* The clock counts ticks; a run happens at one tick, runs are at least one
\* tick apart.  TicksPerSecond ticks share one strftime('%Y%m%d_%H%M%S').
MaxTime == 2
TicksPerSecond == 2

(* --------------------------- program constants ------------------------- *)
DefaultMaxBackups == 100

\* Python None (os.getenv of an unset variable)
None == "<None>"

(* ------------------------------ variables ------------------------------ *)
VARIABLES
  env,            \* the process environment (read by os.getenv, never written)
  now,            \* wall clock, in ticks
  pc,             \* position of the current run inside main()
  mgr,            \* the BackupManager object's fields
  snapshots,      \* backups/backup_<timestamp>.json, by timestamp
  latest,         \* backups/latest_backup.json
  marker,         \* backups/.privacy_verified
  repo_response,  \* check_repository_privacy's `response` (GitHub API)
  run,            \* what the current run did so far (observations)
  prev,           \* outcome of the preceding run
  exitCode        \* the process exit status of the current run, -1 while running

vars == <<env, now, pc, mgr, snapshots, latest, marker, repo_response, run, prev, exitCode>>

(* ------------------------- Python value helpers ------------------------ *)
\* bool(x) of a str-or-None
Truthy(s) == s # None /\ s # ""

\* str.strip() and str.lower() on the strings the environment can hold
Strip(s) == IF s = " " THEN "" ELSE s
Lower(s) == CASE s = "ON" -> "on" [] s = "False" -> "false" [] OTHER -> s

\* int(s): the strings that parse, and their value; any other raises ValueError
IntLiterals == {"-1", "0", "1", "2", "100"}
IntValue(s) == CASE s = "-1" -> 0 - 1 [] s = "0" -> 0 [] s = "1" -> 1
                 [] s = "2" -> 2 [] s = "100" -> DefaultMaxBackups

\* os.getenv(name, default)
GetEnv(value, default) == IF value = None THEN default ELSE value

Min(a, b) == IF a < b THEN a ELSE b
Max(a, b) == IF a > b THEN a ELSE b

\* seq[start+1:]: one file too many is kept
SliceFrom_OffByOne(seq, start) ==
  LET n == Len(seq)
      s == IF start + 1 < 0 THEN Max(n + start + 1, 0) ELSE Min(start + 1, n)
  IN  SubSeq(seq, s + 1, n)

\* seq[start:] with Python's slice semantics (negative start counts from the end)
SliceFrom(seq, start) ==
  LET n == Len(seq)
      s == IF start < 0 THEN Max(n + start, 0) ELSE Min(start, n)
  IN  SubSeq(seq, s + 1, n)

(* ------------------------------ environment ---------------------------- *)
Environments ==
  [ BACKUP_URL              : {None, "", "host"},
    BACKUP_USERNAME         : {None, "user"},
    BACKUP_PASSWORD         : {None, "pw"},
    GITHUB_TOKEN            : {None, "", "tok"},
    GITHUB_REPOSITORY       : {None, "o/r"},
    MAX_BACKUPS             : {None, "-1", "0", "1"},
    ENABLE_CHANGE_DETECTION : {None, "False"} ]

(* ------------------------------ BackupManager -------------------------- *)
\* lines 35-40
ParseMaxBackups(value) ==
  LET max_backups_str == GetEnv(value, "100")
  IN  IF Strip(max_backups_str) = "" THEN DefaultMaxBackups
      ELSE IF max_backups_str \in IntLiterals THEN IntValue(max_backups_str)
      ELSE DefaultMaxBackups   \* ValueError: warning, default

\* lines 43-44
ParseChangeDetection(value) ==
  LET change_detection_str == GetEnv(value, "true")
  IN  IF Strip(change_detection_str) # ""
      THEN Lower(Strip(change_detection_str)) \in {"true", "1", "yes", "on"}
      ELSE TRUE

\* line 50: all([self.base_url, self.username, self.password])
ConfigValid_Any(self) ==
  Truthy(self.base_url) \/ Truthy(self.username) \/ Truthy(self.password)

ConfigValid(self) ==
  Truthy(self.base_url) /\ Truthy(self.username) /\ Truthy(self.password)

\* the fields __init__ assigns from the environment (lines 26-47)
ManagerFields(e) ==
  [ base_url                |-> e.BACKUP_URL,
    username                |-> e.BACKUP_USERNAME,
    password                |-> e.BACKUP_PASSWORD,
    github_token            |-> e.GITHUB_TOKEN,
    github_repository       |-> e.GITHUB_REPOSITORY,
    max_backups             |-> ParseMaxBackups(e.MAX_BACKUPS),
    enable_change_detection |-> ParseChangeDetection(e.ENABLE_CHANGE_DETECTION),
    force_private_repo      |-> TRUE ]

\* no BackupManager object is bound (before construction, or __init__ raised)
NoManager ==
  [ base_url |-> None, username |-> None, password |-> None,
    github_token |-> None, github_repository |-> None,
    max_backups |-> DefaultMaxBackups, enable_change_detection |-> TRUE,
    force_private_repo |-> TRUE ]

(* ------------------------------ JSON values ---------------------------- *)
\* A payload is a JSON object: the sequence of its <<key, value>> members in
\* document order (a Python dict keeps insertion order).  Keys are numbered
\* in their lexicographic order: 1 = "a", 2 = "b".
Payloads ==
  { << <<1, 1>>, <<2, 2>> >>,      \* {"a":1,"b":2}
    << <<2, 2>>, <<1, 1>> >>,      \* {"b":2,"a":1}
    << <<1, 1>>, <<2, 3>> >> }     \* {"a":1,"b":3}

NoData == << >>

\* json.dumps(data, sort_keys=True, separators=(',', ':')): the members in
\* ascending key order, no whitespace
RECURSIVE InsertByKey(_, _)
InsertByKey(sorted, member) ==
  IF sorted = << >> THEN << member >>
  ELSE IF member[1] < Head(sorted)[1] THEN << member >> \o sorted
  ELSE << Head(sorted) >> \o InsertByKey(Tail(sorted), member)

RECURSIVE SortKeys(_)
SortKeys(data) ==
  IF data = << >> THEN << >>
  ELSE InsertByKey(SortKeys(SubSeq(data, 1, Len(data) - 1)), data[Len(data)])

\* a digest, or None
HashNone == [ok |-> FALSE, digest |-> << >>]

\* json.dumps without sort_keys: the members in document order
calculate_data_hash_unsorted(data) == [ok |-> TRUE, digest |-> data]

\* lines 249-258.  MD5 is modelled as injective on the canonical string: the
\* digest is the canonical string itself.
calculate_data_hash(data) == [ok |-> TRUE, digest |-> SortKeys(data)]

(* -------------------------------- files -------------------------------- *)
\* A JSON file: absent, or present with well-formed content (ok) or with a
\* truncated, unparsable content (a json.dump that raised after open()).
NoFile == [exists |-> FALSE, ok |-> FALSE, data |-> NoData, mtime |-> 0]

WriteOutcomes == {"ok", "open_raises", "dump_raises"}

\* with open(path, 'w') as f: json.dump(data, f, ensure_ascii=False, indent=2)
\* json.dump keeps the members in document order.
WriteJson(old, data, t, outcome) ==
  CASE outcome = "ok"          -> [exists |-> TRUE, ok |-> TRUE, data |-> data, mtime |-> t]
    [] outcome = "open_raises" -> old
    [] outcome = "dump_raises" -> [exists |-> TRUE, ok |-> FALSE, data |-> NoData, mtime |-> t]

\* strftime('%Y%m%d'): day resolution, every tick of the model in one name
timestamp_per_day(t) == 0

\* datetime.now().strftime('%Y%m%d_%H%M%S'): second resolution
timestamp(t) == t \div TicksPerSecond

Names == 0 .. timestamp(MaxTime)

SnapshotNames(snaps) == {n \in Names : snaps[n].exists}

(* ---------------------------- privacy gate ----------------------------- *)
\* The answer to GET https://api.github.com/repos/{owner}/{repo}:
\*   err     requests raised a RequestException (network error, timeout)
\*   status  the HTTP status code
\*   json    what response.json() yields: "invalid" (it raises), "array" (a
\*           JSON value that is no object), "object"
\*   private the JSON text of the object's `private` member, or None if absent
PrivateValues == {None, "true", "false", "null", "1", "\"false\""}

GitHubResponses ==
  { [err |-> TRUE,  status |-> 0,   json |-> "invalid", private |-> None],
    [err |-> FALSE, status |-> 404, json |-> "object",  private |-> None],
    [err |-> FALSE, status |-> 500, json |-> "invalid", private |-> None],
    [err |-> FALSE, status |-> 200, json |-> "invalid", private |-> None],
    [err |-> FALSE, status |-> 200, json |-> "array",   private |-> None] }
  \cup
  { [err |-> FALSE, status |-> 200, json |-> "object", private |-> v] : v \in PrivateValues }

NoResponse == [err |-> FALSE, status |-> 0, json |-> "invalid", private |-> None]

\* bool(v) of a parsed JSON value, given as its JSON text
JsonTruthy(v) == v \notin {"false", "null", "0", "\"\"", "[]", "{}"}

\* backups/.privacy_verified: "absent", "written", or "partial" (open()
\* succeeded and a write raised)
MarkerOutcomes == {"ok", "open_raises", "write_raises"}

WriteMarker(outcome) ==
  CASE outcome = "ok"           -> "written"
    [] outcome = "open_raises"  -> "absent"
    [] outcome = "write_raises" -> "partial"

\* line 136 with the test dropped: the marker is written on every Pass
marker_missing_always(privacy_check_file) == TRUE

\* line 136: not os.path.exists(privacy_check_file)
marker_missing(privacy_check_file) == privacy_check_file = "absent"

\* line 77 with the repository test forgotten
credentials_missing_token_only(self) == ~Truthy(self.github_token)

\* line 77: not self.github_token or not self.github_repository
credentials_missing(self) ==
  ~Truthy(self.github_token) \/ ~Truthy(self.github_repository)

\* a gate that trusts an existing marker file instead of asking again
check_repository_privacy_cached(self, privacy_check_file, response, marker_outcome) ==
  LET Block(q) == [ret |-> FALSE, queries |-> q, marker |-> privacy_check_file,
                   marker_writes |-> 0]
  IN  IF credentials_missing(self) THEN Block(0)
      ELSE IF privacy_check_file # "absent"
        THEN [ret |-> TRUE, queries |-> 0, marker |-> privacy_check_file, marker_writes |-> 0]
      ELSE IF response.err \/ response.status # 200 \/ response.json # "object"
        THEN Block(1)
      ELSE IF ~JsonTruthy(IF response.private = None THEN "false" ELSE response.private)
        THEN Block(1)
      ELSE [ret |-> TRUE, queries |-> 1,
            marker |-> WriteMarker(marker_outcome), marker_writes |-> 1]

\* lines 75-158.  Returns the verdict, the number of repository metadata
\* queries issued, the marker file afterwards and whether it was written.
check_repository_privacy(self, privacy_check_file, response, marker_outcome) ==
  LET Block(q) == [ret |-> FALSE, queries |-> q, marker |-> privacy_check_file,
                   marker_writes |-> 0]
  IN  IF credentials_missing(self) THEN Block(0)
      ELSE IF response.err THEN Block(1)                 \* RequestException
      ELSE IF response.status = 404 THEN Block(1)
      ELSE IF response.status # 200 THEN Block(1)
      ELSE IF response.json = "invalid" THEN Block(1)    \* response.json() raises
      ELSE IF response.json # "object" THEN Block(1)     \* .get raises AttributeError
      ELSE LET is_private == IF response.private = None THEN "false"
                             ELSE response.private
           IN  IF ~JsonTruthy(is_private) THEN Block(1)
               ELSE IF marker_missing(privacy_check_file)
                 THEN [ret |-> TRUE, queries |-> 1,
                       marker |-> WriteMarker(marker_outcome), marker_writes |-> 1]
                 ELSE [ret |-> TRUE, queries |-> 1,
                       marker |-> privacy_check_file, marker_writes |-> 0]

(* ------------------------------- pruning ------------------------------- *)
\* The names os.listdir('backups') can return, split where line 339 tests
\* them: backup_<timestamp>.json, latest_backup.json and .privacy_verified.
SnapshotFile(n) == [prefix |-> "backup_", stamp |-> n, suffix |-> ".json"]

LatestFile == [prefix |-> "latest_backup", stamp |-> -1, suffix |-> ".json"]

MarkerFile == [prefix |-> ".privacy_verified", stamp |-> -1, suffix |-> ""]

\* the backups directory as cleanup_old_backups finds it
Directory(snaps, latest_file, marker_file) ==
  [snapshots |-> snaps, latest |-> latest_file, marker |-> marker_file]

\* os.listdir(self.backup_dir); listing is the order of the snapshot names
listdir(dir, listing) ==
  SelectSeq([i \in 1 .. Len(listing) |-> SnapshotFile(listing[i])],
            LAMBDA f : dir.snapshots[f.stamp].exists)
  \o (IF dir.latest.exists THEN << LatestFile >> ELSE << >>)
  \o (IF dir.marker # "absent" THEN << MarkerFile >> ELSE << >>)

\* os.path.getmtime(filepath)
getmtime(dir, f) ==
  IF f = LatestFile THEN dir.latest.mtime
  ELSE IF f = MarkerFile THEN 0
  ELSE dir.snapshots[f.stamp].mtime

\* os.remove(filepath), when it does not raise
remove(dir, f) ==
  IF f = LatestFile THEN [dir EXCEPT !.latest = NoFile]
  ELSE IF f = MarkerFile THEN [dir EXCEPT !.marker = "absent"]
  ELSE [dir EXCEPT !.snapshots[f.stamp] = NoFile]

\* line 339 testing the suffix only
is_backup_file_any_json(filename) ==
  filename.suffix = ".json"

\* line 339: filename.startswith('backup_') and filename.endswith('.json')
is_backup_file(filename) ==
  filename.prefix = "backup_" /\ filename.suffix = ".json"

\* list.sort(key=mtime, reverse=True): a stable sort, most recent first
RECURSIVE InsertByMtime(_, _, _)
InsertByMtime(sorted, name, dir) ==
  IF sorted = << >> THEN << name >>
  ELSE IF getmtime(dir, Head(sorted)) >= getmtime(dir, name)
         THEN << Head(sorted) >> \o InsertByMtime(Tail(sorted), name, dir)
  ELSE << name >> \o sorted

RECURSIVE SortByMtimeDesc(_, _)
SortByMtimeDesc(files, dir) ==
  IF files = << >> THEN << >>
  ELSE InsertByMtime(SortByMtimeDesc(SubSeq(files, 1, Len(files) - 1), dir),
                     files[Len(files)], dir)

\* the for loop of lines 349-352: os.remove each file in turn; the first
\* os.remove that raises leaves the loop (and the function, line 358).
\* attempted collects the files os.remove was called on.
RECURSIVE RemoveAll(_, _, _, _)
RemoveAll(surplus, dir, undeletable, attempted) ==
  IF surplus = << >>
    THEN [dir |-> dir, failed |-> FALSE, attempted |-> attempted]
  ELSE IF Head(surplus) \in undeletable
    THEN [dir |-> dir, failed |-> TRUE, attempted |-> attempted \cup {Head(surplus)}]
  ELSE RemoveAll(Tail(surplus), remove(dir, Head(surplus)), undeletable,
                 attempted \cup {Head(surplus)})

\* lines 333-359.  listing is os.listdir's order, undeletable the files whose
\* os.remove raises.  surplus is backup_files[self.max_backups:].
cleanup_old_backups(self, dir, listing, undeletable) ==
  LET backup_files == SortByMtimeDesc(SelectSeq(listdir(dir, listing), is_backup_file), dir)
      surplus      == SliceFrom(backup_files, self.max_backups)
  IN  IF Len(backup_files) > self.max_backups
      THEN LET r == RemoveAll(surplus, dir, undeletable, {})
           IN  [dir |-> r.dir, failed |-> r.failed, attempted |-> r.attempted,
                surplus |-> {surplus[i] : i \in DOMAIN surplus}]
      ELSE [dir |-> dir, failed |-> FALSE, attempted |-> {}, surplus |-> {}]

(* --------------------------- change detection -------------------------- *)
\* lines 260-274
get_latest_backup_hash(latest_file) ==
  IF ~latest_file.exists THEN HashNone
  ELSE IF ~latest_file.ok THEN HashNone            \* json.load raises
  ELSE calculate_data_hash(latest_file.data)

\* lines 286-288 returning False for a latest_backup.json that exists but
\* could not be read
is_data_changed_fail_closed(new_data, latest_file) ==
  LET new_hash    == calculate_data_hash(new_data)
      latest_hash == get_latest_backup_hash(latest_file)
  IN  IF new_hash = HashNone THEN TRUE
      ELSE IF latest_hash = HashNone THEN ~latest_file.exists
      ELSE new_hash # latest_hash

\* lines 276-296
is_data_changed(new_data, latest_file) ==
  LET new_hash    == calculate_data_hash(new_data)
      latest_hash == get_latest_backup_hash(latest_file)
  IN  IF new_hash = HashNone THEN TRUE
      ELSE IF latest_hash = HashNone THEN TRUE
      ELSE new_hash # latest_hash

(* ------------------------------ saving --------------------------------- *)
\* what save_backup did: its return value, the files afterwards, and the
\* steps it took
NotSaved(snaps, latest_file, marker_file) ==
  [ ret |-> FALSE, snapshots |-> snaps, latest |-> latest_file, marker |-> marker_file,
    consulted |-> FALSE, unchanged |-> FALSE, write_attempted |-> FALSE,
    snapshot_written |-> FALSE, latest_written |-> FALSE,
    prune_ran |-> FALSE, prune_failed |-> FALSE,
    listed |-> {}, deleted |-> {}, surplus |-> {}, attempted |-> {} ]

\* line 302 with the flag ignored: is_data_changed is always consulted
skip_unchanged_ignoring_flag(self, data, latest_file) ==
  [consulted |-> TRUE, skip |-> ~is_data_changed(data, latest_file)]

\* line 302: self.enable_change_detection and not self.is_data_changed(data);
\* `and` calls is_data_changed only if the flag is set
skip_unchanged(self, data, latest_file) ==
  [consulted |-> self.enable_change_detection,
   skip      |-> self.enable_change_detection /\ ~is_data_changed(data, latest_file)]

\* lines 306-327, the part of save_backup after the change detection.  t is
\* datetime.now(); w_snapshot and w_latest are the outcomes of the two file
\* writes; listing and undeletable go to cleanup_old_backups.
write_backup(self, base, data, snaps, latest_file, marker_file, t, w_snapshot, w_latest, listing, undeletable) ==
  LET filename == timestamp(t)
      snaps1   == [snaps EXCEPT ![filename] = WriteJson(@, data, t, w_snapshot)]
      s1       == [base EXCEPT !.write_attempted = TRUE, !.snapshots = snaps1]
  IN  IF w_snapshot # "ok" THEN s1             \* except Exception: return False
      ELSE
        \* (the modification time of latest_backup.json is never read)
        LET latest1 == [WriteJson(latest_file, data, t, w_latest) EXCEPT !.mtime = 0]
            s2      == [s1 EXCEPT !.snapshot_written = TRUE, !.latest = latest1]
        IN  IF w_latest # "ok" THEN s2         \* except Exception: return False
            ELSE
              LET c == cleanup_old_backups(self, Directory(snaps1, latest1, marker_file),
                                           listing, undeletable)
              IN  [s2 EXCEPT !.ret = TRUE,
                             !.latest_written = TRUE,
                             !.prune_ran = TRUE,
                             !.prune_failed = c.failed,
                             !.listed = {<<n, snaps1[n].mtime>> : n \in SnapshotNames(snaps1)},
                             !.deleted = SnapshotNames(snaps1) \ SnapshotNames(c.dir.snapshots),
                             !.surplus = c.surplus,
                             !.attempted = c.attempted,
                             !.snapshots = c.dir.snapshots,
                             !.latest = c.dir.latest,
                             !.marker = c.dir.marker]

\* lines 298-331 without the return of line 304
save_backup_falling_through(self, data, snaps, latest_file, marker_file, t, w_snapshot, w_latest, listing, undeletable) ==
  LET detect == skip_unchanged(self, data, latest_file)
      base   == [NotSaved(snaps, latest_file, marker_file)
                   EXCEPT !.consulted = detect.consulted, !.unchanged = detect.skip]
  IN  write_backup(self, base, data, snaps, latest_file, marker_file, t,
                   w_snapshot, w_latest, listing, undeletable)

\* lines 298-331
save_backup(self, data, snaps, latest_file, marker_file, t, w_snapshot, w_latest, listing, undeletable) ==
  LET detect == skip_unchanged(self, data, latest_file)
      base   == [NotSaved(snaps, latest_file, marker_file) EXCEPT !.consulted = detect.consulted]
  IN  IF detect.skip
      THEN [base EXCEPT !.ret = TRUE, !.unchanged = TRUE]    \* line 304
      ELSE write_backup(self, base, data, snaps, latest_file, marker_file, t,
                        w_snapshot, w_latest, listing, undeletable)

(* ------------------------------- fetching ------------------------------ *)
\* The answer to GET {base_url}/api/manage/sysConfig/backup?action=backup:
\*   err     requests raised a RequestException
\*   status  the HTTP status code
\*   json    "invalid" if response.json() raises, else "object"
\*   data    the parsed body
AuthResponses ==
  { [err |-> TRUE,  status |-> 0,   json |-> "invalid", data |-> NoData],
    [err |-> FALSE, status |-> 401, json |-> "invalid", data |-> NoData],
    [err |-> FALSE, status |-> 500, json |-> "invalid", data |-> NoData],
    [err |-> FALSE, status |-> 200, json |-> "invalid", data |-> NoData] }

DownloadResponses ==
  { [err |-> TRUE,  status |-> 0,   json |-> "invalid", data |-> NoData],
    [err |-> FALSE, status |-> 500, json |-> "invalid", data |-> NoData],
    [err |-> FALSE, status |-> 200, json |-> "invalid", data |-> NoData] }
  \cup
  { [err |-> FALSE, status |-> 200, json |-> "object", data |-> d] : d \in Payloads }

NoAdminResponse == [err |-> FALSE, status |-> 0, json |-> "invalid", data |-> NoData]

ContentTypes == {"application/json", "text/plain"}

\* lines 175-205
authenticate(response) ==
  IF response.err THEN FALSE
  ELSE IF response.status = 401 THEN FALSE
  ELSE IF response.status # 200 THEN FALSE
  ELSE TRUE

\* lines 207-247.  auth and response are the answers to the two GETs.
download_backup(self, auth, response, content_type, snaps, latest_file, marker_file, t, w_snapshot, w_latest, listing, undeletable) ==
  LET failed == NotSaved(snaps, latest_file, marker_file)
  IN  IF ~authenticate(auth)
        THEN [save |-> failed, fetches |-> 1, fetched |-> FALSE]
      ELSE IF response.err
        THEN [save |-> failed, fetches |-> 2, fetched |-> FALSE]
      ELSE IF response.status = 200
        THEN IF content_type = "application/json" /\ response.json = "invalid"
               \* line 226: response.json() raises, caught at line 242 or 245
               THEN [save |-> failed, fetches |-> 2, fetched |-> FALSE]
             ELSE IF content_type # "application/json" /\ response.json = "invalid"
               \* line 230: caught at line 231
               THEN [save |-> failed, fetches |-> 2, fetched |-> FALSE]
               ELSE [save |-> save_backup(self, response.data, snaps, latest_file, marker_file, t,
                                          w_snapshot, w_latest, listing, undeletable),
                     fetches |-> 2, fetched |-> TRUE]
      ELSE [save |-> failed, fetches |-> 2, fetched |-> FALSE]

(* -------------------------------- main() ------------------------------- *)
NoRun ==
  [ queries |-> 0, marker_writes |-> 0, verdict |-> "none",
    fetches |-> 0, fetched |-> FALSE,
    auth |-> NoAdminResponse, download |-> NoAdminResponse,
    makedirs_raised |-> FALSE,
    save |-> NotSaved([n \in Names |-> NoFile], NoFile, "absent") ]

NoPrev == [success |-> FALSE, data |-> NoData]

\* the exit status main() ends with, given download_backup's return value
ExitStatus_AlwaysZero(success) == 0

\* lines 383-387
ExitStatus(success) == IF success THEN 0 ELSE 1

Init ==
  /\ env \in Environments
  /\ now = 0
  /\ pc = "start"
  /\ mgr = NoManager
  /\ snapshots = [n \in Names |-> NoFile]
  /\ latest = NoFile
  /\ marker = "absent"
  /\ repo_response = NoResponse
  /\ run = NoRun
  /\ prev = NoPrev
  /\ exitCode = -1

\* lines 363-368: backup_manager = BackupManager().  A ValueError (line 51)
\* or an OSError of os.makedirs (line 68) reaches line 389: exit(1).
MainConstruct ==
  /\ pc = "start"
  /\ \E makedirs_raises \in BOOLEAN :
       LET self == ManagerFields(env)
       IN  IF ~ConfigValid(self)
           THEN /\ pc' = "exited"
                /\ exitCode' = 1
                /\ UNCHANGED <<mgr, run>>
           ELSE IF makedirs_raises
           THEN /\ pc' = "exited"
                /\ exitCode' = 1
                /\ run' = [run EXCEPT !.makedirs_raised = TRUE]
                /\ UNCHANGED mgr
           ELSE /\ pc' = "constructed"
                /\ mgr' = self
                /\ UNCHANGED <<exitCode, run>>
  /\ UNCHANGED <<env, now, snapshots, latest, marker, repo_response, prev>>

\* main() going on to the download whatever the verdict
MainPrivacyCheck_NoExit ==
  /\ pc = "constructed"
  /\ \E response \in GitHubResponses, marker_outcome \in MarkerOutcomes :
       LET r == check_repository_privacy(mgr, marker, response, marker_outcome)
       IN  /\ repo_response' = (IF r.queries > 0 THEN response ELSE NoResponse)
           /\ marker' = r.marker
           /\ run' = [run EXCEPT !.queries = r.queries,
                                 !.marker_writes = r.marker_writes,
                                 !.verdict = IF r.ret THEN "Pass" ELSE "Block"]
           /\ pc' = "gated"
           /\ UNCHANGED exitCode
  /\ UNCHANGED <<env, now, mgr, snapshots, latest, prev>>

\* lines 370-378: the privacy check; a Block is exit(1)
MainPrivacyCheck ==
  /\ pc = "constructed"
  /\ \E response \in GitHubResponses, marker_outcome \in MarkerOutcomes :
       LET r == check_repository_privacy(mgr, marker, response, marker_outcome)
       IN  /\ repo_response' = (IF r.queries > 0 THEN response ELSE NoResponse)
           /\ marker' = r.marker
           /\ run' = [run EXCEPT !.queries = r.queries,
                                 !.marker_writes = r.marker_writes,
                                 !.verdict = IF r.ret THEN "Pass" ELSE "Block"]
           /\ IF r.ret
              THEN pc' = "gated" /\ UNCHANGED exitCode
              ELSE pc' = "exited" /\ exitCode' = 1
  /\ UNCHANGED <<env, now, mgr, snapshots, latest, prev>>

\* the orders os.listdir can return the directory's names in
Listings ==
  {f \in [1 .. Cardinality(Names) -> Names] : \A x \in Names : \E i \in DOMAIN f : f[i] = x}

AnyListing == CHOOSE f \in Listings : TRUE

\* the end of main() after download_backup returned d (lines 383-387)
MainFinish(d, auth, response) ==
  /\ snapshots' = d.save.snapshots
  /\ latest' = d.save.latest
  /\ marker' = d.save.marker
  /\ run' = [run EXCEPT !.fetches = d.fetches,
                        !.fetched = d.fetched,
                        !.auth = auth,
                        !.download = response,
                        !.save = d.save]
  /\ exitCode' = ExitStatus(d.save.ret)

\* lines 380-387: success = backup_manager.download_backup(), then the exit.
\* The environment's answers are drawn where download_backup comes to need
\* them: the second response only after a successful authenticate, the write
\* outcomes only when save_backup writes, the directory listing and the
\* undeletable files only when cleanup_old_backups runs.
MainBackup ==
  /\ pc = "gated"
  /\ \E auth \in AuthResponses :
       IF ~authenticate(auth)
       THEN MainFinish(download_backup(mgr, auth, NoAdminResponse, "application/json",
                                       snapshots, latest, marker, now, "ok", "ok", AnyListing, {}),
                       auth, NoAdminResponse)
       ELSE \E response \in DownloadResponses, content_type \in ContentTypes :
         IF response.err \/ response.status # 200 \/ response.json = "invalid"
            \/ skip_unchanged(mgr, response.data, latest).skip
         THEN MainFinish(download_backup(mgr, auth, response, content_type,
                                         snapshots, latest, marker, now, "ok", "ok", AnyListing, {}),
                         auth, response)
         ELSE \E w_snapshot \in WriteOutcomes :
           IF w_snapshot # "ok"
           THEN MainFinish(download_backup(mgr, auth, response, content_type,
                                           snapshots, latest, marker, now, w_snapshot, "ok", AnyListing, {}),
                           auth, response)
           ELSE \E w_latest \in WriteOutcomes :
             IF w_latest # "ok"
             THEN MainFinish(download_backup(mgr, auth, response, content_type,
                                             snapshots, latest, marker, now, w_snapshot, w_latest, AnyListing, {}),
                             auth, response)
             ELSE \E listing \in Listings, undeletable \in SUBSET {SnapshotFile(n) : n \in Names} :
               MainFinish(download_backup(mgr, auth, response, content_type,
                                          snapshots, latest, marker, now, w_snapshot, w_latest,
                                          listing, undeletable),
                          auth, response)
  /\ pc' = "exited"
  /\ repo_response' = NoResponse
  /\ UNCHANGED <<env, now, mgr, prev>>

\* the external scheduler starts the next run, one or more ticks later
Schedule ==
  /\ pc = "exited"
  /\ \E t \in (now + 1) .. Min(now + TicksPerSecond, MaxTime) :
       now' = t
  /\ pc' = "start"
  /\ mgr' = NoManager
  /\ run' = NoRun
  /\ repo_response' = NoResponse
  /\ exitCode' = -1
  /\ prev' = [success |-> exitCode = 0,
              data    |-> IF exitCode = 0 THEN run.download.data ELSE NoData]
  /\ UNCHANGED <<env, snapshots, latest, marker>>

Next == MainConstruct \/ MainPrivacyCheck \/ MainBackup \/ Schedule

Spec == Init /\ [][Next]_vars

(* ================================ claims =============================== *)
Exited == pc = "exited"

\* the object `private` member asked of the repository in this run
AnsweredPrivate(v) ==
  /\ run.queries = 1
  /\ ~repo_response.err /\ repo_response.status = 200
  /\ repo_response.json = "object" /\ repo_response.private = v

EnvConfigComplete ==
  Truthy(env.BACKUP_URL) /\ Truthy(env.BACKUP_USERNAME) /\ Truthy(env.BACKUP_PASSWORD)

EnvCredentialsComplete ==
  Truthy(env.GITHUB_TOKEN) /\ Truthy(env.GITHUB_REPOSITORY)

\* two JSON objects with the same members, in whatever order
SameMapping(d1, d2) ==
  {d1[i] : i \in DOMAIN d1} = {d2[i] : i \in DOMAIN d2}

\* C1: a run issues a GET to the admin API only after its privacy check
\* returned Pass; a run whose gate Blocks (e.g. on private=false) exits
\* non-zero and has issued no fetch request.
C1_FetchOnlyAfterPass ==
  /\ run.fetches > 0 => run.verdict = "Pass"
  /\ (Exited /\ run.verdict = "Block") => (exitCode # 0 /\ run.fetches = 0)
  /\ (Exited /\ AnsweredPrivate("false")) => (run.verdict = "Block" /\ exitCode # 0)

C1_Witness ==
  /\ Exited /\ AnsweredPrivate("false")
  /\ run.verdict = "Block" /\ exitCode = 1 /\ run.fetches = 0

\* C2: the gate reaches Pass only when the repository query answered HTTP 200
\* with an object whose `private` member is the boolean true.
C2_PassOnlyOnBooleanTrue ==
  (pc = "gated" /\ run.verdict = "Pass") => AnsweredPrivate("true")

\* C3: with GITHUB_TOKEN or GITHUB_REPOSITORY unset or empty, no repository
\* metadata query is issued, no fetch is issued, the gate never passes and
\* the run exits non-zero.
C3_MissingCredentialsBlock ==
  ~EnvCredentialsComplete =>
      /\ run.queries = 0
      /\ run.fetches = 0
      /\ run.verdict # "Pass"
      /\ pc # "gated"
      /\ Exited => exitCode # 0

C3_Witness ==
  /\ Exited /\ EnvConfigComplete /\ ~EnvCredentialsComplete
  /\ run.verdict = "Block" /\ run.queries = 0 /\ exitCode = 1

\* C4: the verdict of a run's gate and the number of repository queries it
\* issued are the ones the gate yields for every other state of the marker
\* file (same credentials, same API answer); and an answer private=false
\* Blocks after a live query whatever the marker.
MarkerStates == {"absent", "written", "partial"}

GateEvaluated ==
  pc = "gated" \/ (Exited /\ run.verdict = "Block")

C4_MarkerNeverInfluencesGate ==
  /\ GateEvaluated =>
       \A m \in MarkerStates, o \in MarkerOutcomes :
          LET other == check_repository_privacy(mgr, m, repo_response, o)
          IN  /\ other.ret = (run.verdict = "Pass")
              /\ other.queries = run.queries
  /\ (GateEvaluated /\ EnvCredentialsComplete) => run.queries = 1
  /\ (GateEvaluated /\ repo_response.private = "false") => run.verdict = "Block"

C4_Witness ==
  /\ Exited /\ marker # "absent"
  /\ AnsweredPrivate("false") /\ run.verdict = "Block"

\* C5: with change detection enabled, a run that follows a successful run
\* and fetches the same payload (the same members, in whatever key order)
\* reports unchanged, exits 0 and writes no snapshot file.
C5_SamePayloadTwiceWritesOnce ==
  ( /\ Exited /\ prev.success /\ run.fetched
    /\ mgr.enable_change_detection
    /\ SameMapping(run.download.data, prev.data) )
  => /\ run.save.unchanged
     /\ ~run.save.write_attempted
     /\ run.save.deleted = {}
     /\ exitCode = 0

C5_Witness ==
  /\ Exited /\ prev.success /\ run.fetched /\ mgr.enable_change_detection
  /\ run.download.data # prev.data
  /\ SameMapping(run.download.data, prev.data)
  /\ run.save.unchanged /\ exitCode = 0
  /\ Cardinality(SnapshotNames(snapshots)) = 1

\* the n most recently modified of the listed <<name, mtime>> files
MostRecent(listed, n) ==
  { f[1] : f \in { g \in listed : Cardinality({h \in listed : h[2] > g[2]}) < n } }

AtLeastAsRecent(listed, f) ==
  {g \in listed : g # f /\ g[2] >= f[2]}

C7_LatestIsLastWritten ==
  (Exited /\ run.save.snapshot_written) =>
     /\ latest.exists /\ latest.ok
     /\ latest.data = run.download.data

\* C8: a run exits 0 exactly when the gate passed, the fetch succeeded and
\* the payload was unchanged (nothing written) or saved; every other run
\* exits 1, a failure inside pruning changes nothing of this.
FetchSucceeded ==
  /\ run.fetches = 2
  /\ ~run.auth.err /\ run.auth.status = 200
  /\ ~run.download.err /\ run.download.status = 200
  /\ run.download.json = "object"

Saved == run.save.snapshot_written /\ run.save.latest_written

C8_ExitCode ==
  Exited =>
     /\ exitCode \in {0, 1}
     /\ exitCode = 0 <=>
          /\ run.verdict = "Pass"
          /\ FetchSucceeded
          /\ \/ run.save.unchanged /\ ~run.save.write_attempted
             \/ Saved

C8_Witness ==
  /\ Exited /\ exitCode = 0 /\ Saved
  /\ run.save.prune_ran /\ run.save.prune_failed

\* C9: with change detection disabled, a run whose gate passed and whose
\* fetch succeeded never consults is_data_changed and goes on to write: the
\* payload becomes the snapshot of the current second and the content of
\* latest_backup.json, and pruning runs, unless one of the two writes fails
\* (then the run exits 1).
C9_DetectionBypassed ==
  (Exited /\ run.fetched /\ ~mgr.enable_change_detection) =>
     /\ ~run.save.consulted
     /\ ~run.save.unchanged
     /\ run.save.write_attempted
     /\ exitCode = 0 <=> Saved
     /\ Saved =>
          /\ latest.exists /\ latest.ok /\ latest.data = run.download.data
          /\ run.save.prune_ran
          /\ \/ timestamp(now) \in run.save.deleted
             \/ /\ snapshots[timestamp(now)].ok
                /\ snapshots[timestamp(now)].data = run.download.data

C9_Witness ==
  /\ Exited /\ run.fetched /\ ~mgr.enable_change_detection
  /\ prev.success /\ prev.data = run.download.data
  /\ Saved /\ exitCode = 0
  /\ snapshots[timestamp(now)].data = run.download.data

\* C10: a run with BACKUP_URL, BACKUP_USERNAME or BACKUP_PASSWORD missing
\* issues no repository query and no fetch, writes no file, and exits
\* non-zero.
C10_ConfigErrorFatal ==
  ~EnvConfigComplete =>
     /\ pc \in {"start", "exited"}
     /\ run.queries = 0 /\ run.fetches = 0
     /\ ~run.save.write_attempted
     /\ SnapshotNames(snapshots) = {} /\ ~latest.exists /\ marker = "absent"
     /\ Exited => exitCode # 0

C10_Witness ==
  /\ Exited /\ exitCode = 1
  /\ env.BACKUP_PASSWORD = None
  /\ Truthy(env.BACKUP_URL) /\ Truthy(env.BACKUP_USERNAME)
  /\ EnvCredentialsComplete
  /\ run.queries = 0 /\ run.fetches = 0

\* C11 (as stated): pruning is best-effort per file: when cleanup_old_backups
\* runs, os.remove is attempted on every surplus snapshot file, also after
\* the removal of one of them failed.
C11_EverySurplusFileAttempted ==
  (Exited /\ run.save.prune_ran) =>
     run.save.attempted = run.save.surplus

\* the second a tick falls in
SecondOf(t) == t \div TicksPerSecond

\* a step deletes snapshot n by cleanup_old_backups
PrunedInStep(n) ==
  /\ ~snapshots'[n].exists
  /\ pc = "gated" /\ run'.save.prune_ran /\ n \in run'.save.deleted

\* C12 (as stated): once backup_<timestamp>.json is written no later write
\* changes its content, and it ceases to exist only through a deletion by
\* cleanup_old_backups; also for two writes in the same second.
C12_SnapshotsImmutable ==
  [][\A n \in Names :
       snapshots[n].exists =>
         \/ snapshots'[n] = snapshots[n]
         \/ PrunedInStep(n)]_vars

\* C12 (amended): a snapshot file ceases to exist only through a deletion by
\* cleanup_old_backups, and its content is changed only by a write of
\* save_backup made in the same second as the file's last write (the
\* filename collision); a write in any other second leaves it as it is.
C12_SnapshotsChangeOnlyOnCollision ==
  [][\A n \in Names :
       snapshots[n].exists =>
         \/ snapshots'[n] = snapshots[n]
         \/ PrunedInStep(n)
         \/ /\ snapshots'[n].exists
            /\ pc = "gated" /\ run'.save.write_attempted
            /\ SecondOf(snapshots[n].mtime) = SecondOf(now)]_vars

\* two accepted writes in one second: the second replaced the first's content
C12_Witness ==
  /\ Exited /\ now = 1 /\ mgr.max_backups = 1
  /\ prev.success /\ prev.data # run.download.data
  /\ run.save.snapshot_written
  /\ snapshots[0].exists /\ snapshots[0].data = run.download.data
  /\ snapshots[0].mtime = 1

\* C13: change detection fails open.  In a run with detection enabled whose
\* fetch succeeded, is_data_changed is consulted and answers unchanged only
\* if latest_backup.json was there, parsed, and has the digest of the new
\* payload; otherwise (absent, or present but unreadable) the run goes on to
\* write the snapshot instead of skipping.
C13_ChangeDetectionFailsOpen ==
  [][(pc = "gated" /\ run'.fetched /\ mgr.enable_change_detection) =>
       /\ run'.save.consulted
       /\ run'.save.unchanged <=>
            /\ latest.exists /\ latest.ok
            /\ calculate_data_hash(latest.data).ok
            /\ calculate_data_hash(run'.download.data).ok
            /\ calculate_data_hash(latest.data) = calculate_data_hash(run'.download.data)
       /\ run'.save.unchanged \/ run'.save.write_attempted
       /\ (latest.exists /\ ~latest.ok) => run'.save.write_attempted]_vars

\* a run that found latest_backup.json unparsable (its own snapshot write
\* failed before it came to touch latest_backup.json) and did not skip
C13_Witness ==
  /\ Exited /\ mgr.enable_change_detection /\ run.fetched
  /\ run.save.consulted /\ ~run.save.unchanged
  /\ run.save.write_attempted /\ ~run.save.snapshot_written
  /\ latest.exists /\ ~latest.ok

\* C14: an unchanged run modifies nothing in the store.  When detection is
\* enabled and the fetched payload has the digest of latest_backup.json, the
\* run skips: no backup_*.json file is created, overwritten or deleted,
\* latest_backup.json (and .privacy_verified) stay as they are, no write is
\* attempted, cleanup_old_backups does not run, and the run exits 0.
C14_UnchangedRunModifiesNothing ==
  [][(/\ pc = "gated" /\ run'.fetched /\ mgr.enable_change_detection
      /\ latest.exists /\ latest.ok
      /\ calculate_data_hash(latest.data) = calculate_data_hash(run'.download.data)) =>
       /\ run'.save.unchanged
       /\ snapshots' = snapshots
       /\ latest' = latest
       /\ marker' = marker
       /\ ~run'.save.write_attempted
       /\ ~run'.save.prune_ran /\ run'.save.deleted = {} /\ run'.save.attempted = {}
       /\ run'.save.ret /\ exitCode' = 0]_vars

\* a third-tick run that fetched the payload of the snapshot of second 0 in
\* another key order and skipped
C14_Witness ==
  /\ Exited /\ now = MaxTime /\ mgr.enable_change_detection /\ run.fetched
  /\ run.save.unchanged /\ exitCode = 0
  /\ latest.exists /\ latest.ok
  /\ latest.data # run.download.data /\ SameMapping(latest.data, run.download.data)
  /\ snapshots[0].exists /\ snapshots[0].data = latest.data
  /\ ~snapshots[timestamp(now)].exists

\* C15: pruning only ever deletes snapshot files.  Whenever
\* cleanup_old_backups runs, for every MAX_BACKUPS (0 and negative values
\* included) and every directory content, the surplus it computes and the
\* files it calls os.remove on are all named backup_*.json;
\* latest_backup.json is afterwards what save_backup just wrote and
\* .privacy_verified is what it was.
C15_PruningOnlyTouchesSnapshots ==
  [][(pc = "gated" /\ run'.save.prune_ran) =>
       /\ run'.save.surplus \subseteq {SnapshotFile(n) : n \in Names}
       /\ run'.save.attempted \subseteq run'.save.surplus
       /\ LatestFile \notin run'.save.attempted
       /\ MarkerFile \notin run'.save.attempted
       /\ latest'.exists /\ latest'.ok /\ latest'.data = run'.download.data
       /\ marker' = marker]_vars

\* MAX_BACKUPS=0: pruning removed every snapshot, the two other files of
\* the directory are still there
C15_Witness ==
  /\ Exited /\ mgr.max_backups = 0
  /\ run.save.prune_ran /\ ~run.save.prune_failed
  /\ run.save.deleted # {} /\ SnapshotNames(snapshots) = {}
  /\ latest.exists /\ latest.ok /\ latest.data = run.download.data
  /\ marker = "written"

\* the step in which a run's check_repository_privacy returns
GateStep == pc = "constructed" /\ pc' # "constructed"

\* C16: the marker is written only on a Pass and never affects it.
\* .privacy_verified changes only in the gate step of a run whose verdict is
\* Pass and only when it did not exist before; an existing marker is neither
\* rewritten nor changed, a Block run leaves it alone, and a run whose
\* creation of the marker failed still passes the gate.
C16_MarkerOnlyOnPass ==
  [][/\ marker' # marker =>
          GateStep /\ marker = "absent" /\ run'.verdict = "Pass"
     /\ GateStep =>
          /\ run'.marker_writes = 1 => (marker = "absent" /\ run'.verdict = "Pass")
          /\ run'.verdict = "Block" => (run'.marker_writes = 0 /\ marker' = marker)
          /\ marker # "absent" => (run'.marker_writes = 0 /\ marker' = marker)
          /\ (run'.verdict = "Pass" /\ marker = "absent") => run'.marker_writes = 1
          /\ (run'.marker_writes = 1 /\ marker' # "written") =>
               (run'.verdict = "Pass" /\ pc' = "gated")]_vars

\* the gate passed although open() of the marker raised
C16_Witness ==
  /\ pc = "gated" /\ run.verdict = "Pass"
  /\ run.marker_writes = 1 /\ marker = "absent"

====
